---- MODULE Spec2Model ----
(***************************************************************************)
(* Model of the balance projector of BenGale93/balance:                    *)
(*   src/src/utils.rs    modulo, is_leap_year, days_in_month               *)
(*   src/src/payment.rs  Payment (ordering by name), PaymentManager        *)
(*   src/src/main.rs     the stand-alone variant of the same projector     *)
(* Amounts are Decimal values held as integer pence.  Strings are          *)
(* sequences of byte values.  Dates are records [year, month, day].        *)
(***************************************************************************)
EXTENDS Integers, Sequences, FiniteSets

VARIABLES
    balance,        \* PaymentManager.balance
    reset_day,      \* PaymentManager.reset_day
    payments,       \* PaymentManager.payments (a Vec<Payment>)
    current_day,    \* the NaiveDate handed to remaining_balance / days_in_month
    leftover,       \* payment.rs: indices of the payments that pass the filter
    remaining,      \* payment.rs: value returned by remaining_balance
    leftover_main,  \* main.rs: indices of the payments that pass the filter
    remaining_main, \* main.rs: value returned by remaining_balance
    dim,            \* value returned by utils::days_in_month
    a,              \* first argument of modulo
    b,              \* second argument of modulo
    build,          \* "debug" (overflow checks on) or "release" (wrapping)
    mod_out,        \* outcome of modulo(a, b)
    input,          \* the Vec<Payment> as it was before sort()
    pc              \* "init" before the operation ran, "done" after

vars == << balance, reset_day, payments, current_day, leftover, remaining,
           leftover_main, remaining_main, dim, a, b, build, mod_out, input, pc >>

(***************************************************************************)
(* Bounds of the model.                                                    *)
(***************************************************************************)
\* Width in bits of the model's isize (the real one is 64 bits wide).
IsizeBits == 8
\* Longest list of catalogue payments handed to the projector.
MaxPayments == 2
\* Longest list handed to sort().
MaxSortLen == 3

(***************************************************************************)
(* Fixed-width signed integers (isize).                                    *)
(***************************************************************************)
RECURSIVE Pow2(_)
Pow2(n) == IF n = 0 THEN 1 ELSE 2 * Pow2(n - 1)

ISIZE_MAX == Pow2(IsizeBits - 1) - 1
ISIZE_MIN == -Pow2(IsizeBits - 1)
ISIZE_SPAN == Pow2(IsizeBits)
Isize == ISIZE_MIN..ISIZE_MAX

\* Two's-complement wrap-around of an out-of-range result (release build).
Wrap(x) == ((x - ISIZE_MIN) % ISIZE_SPAN) + ISIZE_MIN

\* Rust's % on signed integers: truncating remainder, sign of the dividend.
\* Only used with y > 0.
Rem(x, y) == IF x >= 0 THEN x % y ELSE -((-x) % y)

(***************************************************************************)
(* utils.rs (and main.rs): modulo                                          *)
(***************************************************************************)
\* The intermediate sum (a % b) + b leaves isize: a panic with overflow
\* checks, a wrap-around without them.
moduloOverflows(x, y) == Rem(x, y) + y \notin Isize

moduloTruncating(x, y) == Rem(x, y)
modulo(x, y) == Rem(Wrap(Rem(x, y) + y), y)

(***************************************************************************)
(* utils.rs: is_leap_year, days_in_month;  main.rs: days_in_month          *)
(***************************************************************************)
\* the arm `_ => unreachable!()`
Unreachable == -1

is_leap_year(date) ==
    Rem(date.year, 4) = 0 /\ (Rem(date.year, 100) # 0 \/ Rem(date.year, 400) = 0)

days_in_monthNoCentury(date) ==
    CASE date.month \in {1, 3, 5, 7, 8, 10, 12} -> 31
      [] date.month \in {4, 6, 9, 11} -> 30
      [] date.month = 2 -> IF Rem(date.year, 4) = 0 THEN 29 ELSE 28
      [] OTHER -> Unreachable

days_in_monthNoLeap(date) ==
    CASE date.month \in {1, 3, 5, 7, 8, 10, 12} -> 31
      [] date.month \in {4, 6, 9, 11} -> 30
      [] date.month = 2 -> 28
      [] OTHER -> Unreachable

days_in_month(date) ==
    CASE date.month \in {1, 3, 5, 7, 8, 10, 12} -> 31
      [] date.month \in {4, 6, 9, 11} -> 30
      [] date.month = 2 -> IF is_leap_year(date) THEN 29 ELSE 28
      [] OTHER -> Unreachable

\* main.rs: keyed on the month number alone.
main_days_in_month(month) ==
    CASE month \in {1, 3, 5, 7, 8, 10, 12} -> 31
      [] month = 2 -> 28
      [] OTHER -> 30

(***************************************************************************)
(* payment.rs / main.rs: PaymentManager::remaining_balance                 *)
(***************************************************************************)
\* modulo(day - rd, days_in_month) and modulo(p.day_paid - rd, days_in_month)
rebase(x, rd, d_i_m) == modulo(Wrap(x - rd), d_i_m)

\* .filter(|p| p.1 > rebased_cd)
PendingNotStrict(p, rd, day, d_i_m) ==
    rebase(p.day_paid, rd, d_i_m) >= rebase(day, rd, d_i_m)
PendingFlipped(p, rd, day, d_i_m) ==
    rebase(p.day_paid, rd, d_i_m) < rebase(day, rd, d_i_m)
PendingNoRebase(p, rd, day, d_i_m) == p.day_paid > day
Pending(p, rd, day, d_i_m) ==
    rebase(p.day_paid, rd, d_i_m) > rebase(day, rd, d_i_m)

\* payment.rs: the payments left after the filter, by position in the Vec
Leftover(ps, rd, date) ==
    { i \in DOMAIN ps : Pending(ps[i], rd, date.day, days_in_month(date)) }

\* main.rs: the same with main.rs's days_in_month(current_day.month())
LeftoverMain(ps, rd, date) ==
    { i \in DOMAIN ps :
        Pending(ps[i], rd, date.day, main_days_in_month(date.month)) }

\* .map(|p| p.0).sum()
RECURSIVE SumAmounts(_, _)
SumAmounts(ps, idx) ==
    IF idx = {} THEN 0
    ELSE LET i == CHOOSE j \in idx : TRUE
         IN  ps[i].amount + SumAmounts(ps, idx \ {i})

remaining_balance(bal, ps, rd, date) ==
    bal - SumAmounts(ps, Leftover(ps, rd, date))

main_remaining_balance(bal, ps, rd, date) ==
    bal - SumAmounts(ps, LeftoverMain(ps, rd, date))

(***************************************************************************)
(* Inputs.                                                                 *)
(***************************************************************************)
\* day_paid and reset_day as the data-entry boundary admits them
Days == 1..28

\* "Phone", "Water", "Gas" as bytes
Phone == << 80, 104, 111, 110, 101 >>
Water == << 87, 97, 116, 101, 114 >>
Gas == << 71, 97, 115 >>

Payment(name, amount, day_paid) ==
    [name |-> name, amount |-> amount, day_paid |-> day_paid]

\* The payments of the repository's tests.
Catalogue == { Payment(Phone, 1000, 28), Payment(Water, 2000, 3) }

SeqsUpTo(S, n) == UNION { [1..k -> S] : k \in 0..n }

\* Every single payment, and every list of catalogue payments up to MaxPayments.
PaymentLists ==
    { << Payment(Gas, 500, d) >> : d \in Days } \cup SeqsUpTo(Catalogue, MaxPayments)

Balances == { 0, 10000 }

\* Gregorian month lengths, written out independently of the code under test.
GregorianLeap(y) == (y % 4 = 0) /\ ((y % 100 # 0) \/ (y % 400 = 0))
GregorianLength(y, m) ==
    IF m \in {1, 3, 5, 7, 8, 10, 12} THEN 31
    ELSE IF m \in {4, 6, 9, 11} THEN 30
    ELSE IF GregorianLeap(y) THEN 29 ELSE 28

Date(y, m, d) == [year |-> y, month |-> m, day |-> d]
\* Every date of the months ym (pairs << year, month >>).
DatesOf(ym) ==
    UNION { { Date(x[1], x[2], d) : d \in 1..GregorianLength(x[1], x[2]) } : x \in ym }

\* Months of a common year and of a leap year: every month length (28, 29,
\* 30, 31) and every pair of lengths of consecutive months.
ProjectorMonths ==
    ({ 2023 } \X (1..3)) \cup { << 2023, 12 >> } \cup ({ 2024 } \X (1..5))
ProjectorDates == DatesOf(ProjectorMonths)

None == "none"

(***************************************************************************)
(* Spec: one run of the projector (both variants) on one input.            *)
(***************************************************************************)
Idle ==
    /\ dim = None /\ a = 0 /\ b = 1 /\ build = "release" /\ mod_out = None
    /\ input = << >>

Init ==
    /\ balance \in Balances
    /\ reset_day \in Days
    /\ payments \in PaymentLists
    /\ current_day \in ProjectorDates
    /\ leftover = None /\ remaining = None
    /\ leftover_main = None /\ remaining_main = None
    /\ Idle
    /\ pc = "init"

\* payment_manager.remaining_balance(current_day), payment.rs and main.rs
RemainingBalance ==
    /\ pc = "init"
    /\ leftover' = Leftover(payments, reset_day, current_day)
    /\ remaining' = remaining_balance(balance, payments, reset_day, current_day)
    /\ leftover_main' = LeftoverMain(payments, reset_day, current_day)
    /\ remaining_main' =
           main_remaining_balance(balance, payments, reset_day, current_day)
    /\ pc' = "done"
    /\ UNCHANGED << balance, reset_day, payments, current_day, dim, a, b, build,
                    mod_out, input >>

Next == RemainingBalance

Spec == Init /\ [][Next]_vars

(***************************************************************************)
(* SpecCycle: the program is run on a reset date and again on each         *)
(* following day (main reads the date from the clock on every run).        *)
(***************************************************************************)
\* The day after date (the clock's calendar, not the code's days_in_month).
NextDate(date) ==
    IF date.day < GregorianLength(date.year, date.month)
    THEN Date(date.year, date.month, date.day + 1)
    ELSE IF date.month = 12 THEN Date(date.year + 1, 1, 1)
    ELSE Date(date.year, date.month + 1, 1)

InitCycle ==
    /\ Init
    /\ current_day.day = reset_day

\* The run of the following day, on the same balance and payments.
NextDayRun ==
    /\ pc = "done"
    /\ NextDate(current_day) \in ProjectorDates
    /\ current_day' = NextDate(current_day)
    /\ leftover' = Leftover(payments, reset_day, current_day')
    /\ remaining' = remaining_balance(balance, payments, reset_day, current_day')
    /\ leftover_main' = LeftoverMain(payments, reset_day, current_day')
    /\ remaining_main' =
           main_remaining_balance(balance, payments, reset_day, current_day')
    /\ UNCHANGED << balance, reset_day, payments, dim, a, b, build, mod_out,
                    input, pc >>

NextCycle == RemainingBalance \/ NextDayRun

SpecCycle == InitCycle /\ [][NextCycle]_vars

(***************************************************************************)
(* SpecDays: utils::days_in_month on one date.                             *)
(***************************************************************************)
NoProjector ==
    /\ balance = 0 /\ reset_day = 1 /\ payments = << >>
    /\ leftover = None /\ remaining = None
    /\ leftover_main = None /\ remaining_main = None

\* Years around the leap-year rule's cases (NaiveDate years may be negative).
CalendarYears ==
    { -400, -100, -4, -1, 0, 1, 4, 100, 1900, 2000, 2020, 2023, 2024, 2100 }
CalendarDates == DatesOf(CalendarYears \X (1..12))

InitDays ==
    /\ current_day \in CalendarDates
    /\ NoProjector
    /\ Idle
    /\ pc = "init"

DaysInMonth ==
    /\ pc = "init"
    /\ dim' = days_in_month(current_day)
    /\ pc' = "done"
    /\ UNCHANGED << balance, reset_day, payments, current_day, leftover, remaining,
                    leftover_main, remaining_main, a, b, build, mod_out, input >>

NextDays == DaysInMonth

SpecDays == InitDays /\ [][NextDays]_vars

(***************************************************************************)
(* SpecModulo: modulo(a, b) on one pair of isize values, b positive.       *)
(***************************************************************************)
InitModulo ==
    /\ a \in Isize
    /\ b \in 1..ISIZE_MAX
    /\ build \in { "debug", "release" }
    /\ mod_out = None
    /\ dim = None /\ input = << >>
    /\ current_day = Date(2023, 1, 1)
    /\ NoProjector
    /\ pc = "init"

\* With overflow checks the addition panics; without, it wraps around.
Modulo ==
    /\ pc = "init"
    /\ mod_out' = IF build = "debug" /\ moduloOverflows(a, b)
                  THEN [panicked |-> TRUE, value |-> 0]
                  ELSE [panicked |-> FALSE, value |-> modulo(a, b)]
    /\ pc' = "done"
    /\ UNCHANGED << balance, reset_day, payments, current_day, leftover, remaining,
                    leftover_main, remaining_main, dim, a, b, build, input >>

NextModulo == Modulo

SpecModulo == InitModulo /\ [][NextModulo]_vars

(***************************************************************************)
(* payment.rs: the ordering of Payment, and Vec<Payment>::sort() with it.  *)
(***************************************************************************)
\* str's Ord: lexicographic on the bytes.
RECURSIVE StrCmp(_, _)
StrCmp(s, t) ==
    IF s = << >> /\ t = << >> THEN "Equal"
    ELSE IF s = << >> THEN "Less"
    ELSE IF t = << >> THEN "Greater"
    ELSE IF Head(s) < Head(t) THEN "Less"
    ELSE IF Head(s) > Head(t) THEN "Greater"
    ELSE StrCmp(Tail(s), Tail(t))

IntCmp(x, y) == IF x < y THEN "Less" ELSE IF x > y THEN "Greater" ELSE "Equal"

\* impl Ord for Payment: self.name.cmp(&other.name)
cmpByAmount(p, q) == IntCmp(p.amount, q.amount)
cmp(p, q) == StrCmp(p.name, q.name)

\* impl PartialEq for Payment: self.name == other.name
eq(p, q) == p.name = q.name

\* The stable sort of the standard library on a short slice: each element in
\* turn moves left past the elements it is less than.
RECURSIVE InsertTail(_, _)
InsertTail(s, x) ==
    IF s = << >> THEN << x >>
    ELSE IF cmp(x, s[Len(s)]) = "Less"
         THEN Append(InsertTail(SubSeq(s, 1, Len(s) - 1), x), s[Len(s)])
         ELSE Append(s, x)

RECURSIVE SortPrefix(_, _)
SortPrefix(v, n) == IF n = 0 THEN << >> ELSE InsertTail(SortPrefix(v, n - 1), v[n])

sort(v) == SortPrefix(v, Len(v))

\* "A", "a", "AA", "Aa", "aA", "aa"
SortNames == { << 65 >>, << 97 >>, << 65, 65 >>, << 65, 97 >>, << 97, 65 >>, << 97, 97 >> }
SortPayments == { Payment(n, 1000, 28) : n \in SortNames } \cup
                { Payment(n, 2000, 3) : n \in SortNames }

InitSort ==
    /\ payments \in SeqsUpTo(SortPayments, MaxSortLen)
    /\ input = payments
    /\ balance = 0 /\ reset_day = 1
    /\ leftover = None /\ remaining = None
    /\ leftover_main = None /\ remaining_main = None
    /\ current_day = Date(2023, 1, 1)
    /\ dim = None /\ a = 0 /\ b = 1 /\ build = "release" /\ mod_out = None
    /\ pc = "init"

\* payments.sort()
Sort ==
    /\ pc = "init"
    /\ payments' = sort(payments)
    /\ pc' = "done"
    /\ UNCHANGED << balance, reset_day, current_day, leftover, remaining,
                    leftover_main, remaining_main, dim, a, b, build, mod_out, input >>

NextSort == Sort

SpecSort == InitSort /\ [][NextSort]_vars

(***************************************************************************)
(* The calendar the claims are stated against.                             *)
(***************************************************************************)
\* Days of year y before its month m.
DaysBeforeMonth(y, m) ==
    << 0, 31, 59, 90, 120, 151, 181, 212, 243, 273, 304, 334 >>[m]
        + (IF m > 2 /\ GregorianLeap(y) THEN 1 ELSE 0)

\* Number of the day in the proleptic Gregorian calendar (0001-01-01 is 1).
Ordinal(date) ==
    LET y == date.year - 1
    IN  365 * y + (y \div 4) - (y \div 100) + (y \div 400)
          + DaysBeforeMonth(date.year, date.month) + date.day

PrevMonth(date) ==
    IF date.month = 1 THEN << date.year - 1, 12 >> ELSE << date.year, date.month - 1 >>
NextMonth(date) ==
    IF date.month = 12 THEN << date.year + 1, 1 >> ELSE << date.year, date.month + 1 >>

\* The dates near today whose day-of-month is d (d in 1..28 exists in every month).
DatesWithDay(today, d) ==
    { Date(PrevMonth(today)[1], PrevMonth(today)[2], d),
      Date(today.year, today.month, d),
      Date(NextMonth(today)[1], NextMonth(today)[2], d) }

\* The latest date on or before today whose day-of-month is rd.
LastReset(today, rd) ==
    LET t == Ordinal(today)
        cands == { r \in DatesWithDay(today, rd) : Ordinal(r) <= t }
    IN  CHOOSE r \in cands : \A q \in cands : Ordinal(q) <= Ordinal(r)

\* The earliest date after today whose day-of-month is rd.
NextReset(today, rd) ==
    LET t == Ordinal(today)
        cands == { r \in DatesWithDay(today, rd) : Ordinal(r) > t }
    IN  CHOOSE r \in cands : \A q \in cands : Ordinal(r) <= Ordinal(q)

\* The one date of the current pay cycle whose day-of-month is d.
DueDate(today, rd, d) ==
    LET from == Ordinal(LastReset(today, rd))
        to == Ordinal(NextReset(today, rd))
    IN  CHOOSE x \in DatesWithDay(today, d) : from <= Ordinal(x) /\ Ordinal(x) < to

NotYetOccurred(today, rd, p) == Ordinal(DueDate(today, rd, p.day_paid)) > Ordinal(today)

DaysSinceReset(today, rd) == Ordinal(today) - Ordinal(LastReset(today, rd))

RECURSIVE Total(_, _, _)
\* Sum of the amounts of the payments ps[i], i in 1..n and in the set S.
Total(ps, n, S) ==
    IF n = 0 THEN 0
    ELSE Total(ps, n - 1, S) + (IF n \in S THEN ps[n].amount ELSE 0)

\* ps without its i-th element.
Without(ps, i) == [ j \in 1..(Len(ps) - 1) |-> IF j < i THEN ps[j] ELSE ps[j + 1] ]

Computed == pc = "done"

(***************************************************************************)
(* Claims about the projector, checked under Spec.                         *)
(***************************************************************************)
\* C1: payment.rs's remaining_balance returns balance minus the amounts of
\* exactly the payments whose due date in the current pay cycle (from the
\* latest reset date on or before today to the day before the next one) is
\* strictly after today.
C1_RemainingIsBalanceMinusNotYetOccurred ==
    Computed =>
        LET due == { i \in DOMAIN payments :
                       NotYetOccurred(current_day, reset_day, payments[i]) }
        IN  /\ leftover = due
            /\ remaining = balance - Total(payments, Len(payments), due)

\* The last reset lies in the previous month, whose length differs from this
\* month's; one payment is still due and another one has occurred.
C1_Witness ==
    /\ Computed
    /\ current_day.day < reset_day
    /\ GregorianLength(PrevMonth(current_day)[1], PrevMonth(current_day)[2])
         # GregorianLength(current_day.year, current_day.month)
    /\ Len(payments) = 2
    /\ leftover = { 2 }
    /\ payments[1].amount > 0
    /\ remaining = balance - payments[2].amount
    /\ remaining < balance

\* C2: on the reset day itself both variants subtract every payment whose
\* day_paid differs from reset_day, and no other.
C2_ResetDayAllOthersPending ==
    (Computed /\ current_day.day = reset_day) =>
        LET others == { i \in DOMAIN payments : payments[i].day_paid # reset_day }
        IN  /\ leftover = others
            /\ leftover_main = others
            /\ remaining = balance - Total(payments, Len(payments), others)
            /\ remaining_main = balance - Total(payments, Len(payments), others)

C2_Witness ==
    /\ Computed
    /\ current_day.day = reset_day
    /\ \E i, j \in DOMAIN payments :
          /\ payments[i].day_paid < reset_day
          /\ payments[j].day_paid > reset_day
    /\ remaining = balance - 3000
    /\ remaining_main = balance - 3000

\* C3: a payment whose day_paid is today's day-of-month is not subtracted by
\* either variant: the result is the one for the list without that payment.
C3_PaidTodayIsNotPending ==
    Computed =>
        \A i \in DOMAIN payments :
            payments[i].day_paid = current_day.day =>
                /\ i \notin leftover
                /\ i \notin leftover_main
                /\ remaining = remaining_balance(balance, Without(payments, i),
                                                 reset_day, current_day)
                /\ remaining_main = main_remaining_balance(balance, Without(payments, i),
                                                           reset_day, current_day)

C3_Witness ==
    /\ Computed
    /\ Len(payments) = 2
    /\ payments[1].day_paid = current_day.day
    /\ payments[1].amount > 0
    /\ payments[1].day_paid # reset_day
    /\ leftover = { 2 }
    /\ leftover_main = { 2 }

\* C4: a payment whose day_paid is reset_day is never subtracted, whatever
\* the date (its rebased offset is 0, today's is never negative).
C4_PaidOnResetDayNeverPending ==
    Computed =>
        \A i \in DOMAIN payments :
            payments[i].day_paid = reset_day =>
                /\ i \notin leftover
                /\ i \notin leftover_main
                /\ rebase(payments[i].day_paid, reset_day, days_in_month(current_day)) = 0
                /\ rebase(current_day.day, reset_day, days_in_month(current_day)) >= 0
                /\ rebase(current_day.day, reset_day,
                          main_days_in_month(current_day.month)) >= 0
                /\ remaining = remaining_balance(balance, Without(payments, i),
                                                 reset_day, current_day)
                /\ remaining_main = main_remaining_balance(balance, Without(payments, i),
                                                           reset_day, current_day)

C4_Witness ==
    /\ Computed
    /\ Len(payments) = 1
    /\ payments[1].day_paid = reset_day
    /\ payments[1].amount > 0
    /\ current_day.day < reset_day
    /\ remaining = balance
    /\ remaining_main = balance

\* C8 as claimed: today's rebased offset is the number of calendar days since
\* the most recent reset date.
C8_RebasedIsDaysSinceReset ==
    Computed =>
        rebase(current_day.day, reset_day, days_in_month(current_day))
            = DaysSinceReset(current_day, reset_day)

\* C8 as amended: the offset is the number of days since the most recent
\* reset date when that date lies in today's month; when it lies in the
\* previous month, the offset is that number plus the length of today's
\* month minus the length of the previous month.
C8_RebasedIsDaysSinceResetInCycleOfDim ==
    Computed =>
        LET prev == PrevMonth(current_day)
            skew == IF current_day.day < reset_day
                    THEN GregorianLength(current_day.year, current_day.month)
                           - GregorianLength(prev[1], prev[2])
                    ELSE 0
        IN  rebase(current_day.day, reset_day, days_in_month(current_day))
                = DaysSinceReset(current_day, reset_day) + skew

C8_Witness ==
    /\ Computed
    /\ current_day.day < reset_day
    /\ GregorianLength(PrevMonth(current_day)[1], PrevMonth(current_day)[2]) = 29
    /\ GregorianLength(current_day.year, current_day.month) = 31
    /\ DaysSinceReset(current_day, reset_day) = 12
    /\ rebase(current_day.day, reset_day, days_in_month(current_day)) = 14

\* C10: main.rs's remaining_balance and payment.rs's return the same result
\* on every input.
C10_MainAgreesWithPayment ==
    Computed => remaining_main = remaining

(***************************************************************************)
(* Claim about a pay cycle, checked under SpecCycle.                       *)
(***************************************************************************)
\* A step from one day's run to the next day's run inside the same cycle.
SameCycleStep ==
    /\ pc = "done" /\ pc' = "done"
    /\ current_day' = NextDate(current_day)
    /\ current_day'.day # reset_day

\* C9: from a reset date to the day before the next one, day by day, the
\* pending payments only shrink and the result never decreases; a payment
\* whose day_paid differs from reset_day is pending up to the day before the
\* date whose day-of-month is its day_paid, and not from that date on.
C9_PendingOnlyShrinksWithinCycle ==
    [][ SameCycleStep =>
          /\ leftover' \subseteq leftover
          /\ remaining' >= remaining
          /\ \A i \in DOMAIN payments :
                (payments[i].day_paid # reset_day
                   /\ payments[i].day_paid = current_day'.day)
                    => (i \in leftover /\ i \notin leftover') ]_vars

\* The cycle has crossed into a month of another length, the payment due on
\* the 3rd has left the pending set and the result has risen to the balance.
C9_Witness ==
    /\ Computed
    /\ current_day.day < reset_day
    /\ current_day.day > 3
    /\ GregorianLength(PrevMonth(current_day)[1], PrevMonth(current_day)[2])
         # GregorianLength(current_day.year, current_day.month)
    /\ \E i \in DOMAIN payments :
          /\ payments[i].day_paid = 3
          /\ payments[i].amount > 0
    /\ leftover = {}
    /\ remaining = balance

(***************************************************************************)
(* Claim about days_in_month, checked under SpecDays.                      *)
(***************************************************************************)
\* C5: days_in_month returns the Gregorian length of the date's month (29
\* for February exactly in years divisible by 4 and not by 100, or divisible
\* by 400), and never reaches the unreachable!() arm.
C5_DaysInMonthIsGregorian ==
    pc = "done" =>
        /\ dim # Unreachable
        /\ dim = GregorianLength(current_day.year, current_day.month)
        /\ (current_day.month \in {1, 3, 5, 7, 8, 10, 12} => dim = 31)
        /\ (current_day.month \in {4, 6, 9, 11} => dim = 30)
        /\ (current_day.month = 2 /\ current_day.year = 2020 => dim = 29)
        /\ (current_day.month = 2 /\ current_day.year = 1900 => dim = 28)
        /\ (current_day.month = 2 /\ current_day.year = 2000 => dim = 29)

C5_Witness ==
    /\ pc = "done"
    /\ current_day.year = 1900
    /\ current_day.month = 2
    /\ dim = 28

(***************************************************************************)
(* Claim about modulo, checked under SpecModulo.                           *)
(***************************************************************************)
\* C6: for every isize a and positive isize b, modulo(a, b) lies in [0, b),
\* agrees with a mod b for a >= 0, and the intermediate sum (a % b) + b
\* stays inside isize.
C6_ModuloInRangeWithoutOverflow ==
    pc = "done" =>
        /\ ~moduloOverflows(a, b)
        /\ ~mod_out.panicked
        /\ mod_out.value \in 0..(b - 1)
        /\ (a >= 0 => mod_out.value = a % b)

(***************************************************************************)
(* Claim about sorting payments, checked under SpecSort.                   *)
(***************************************************************************)
\* s <= t in the alphabetical (lexicographic) order
LexLeq(s, t) ==
    \/ /\ Len(s) <= Len(t)
       /\ \A k \in 1..Len(s) : s[k] = t[k]
    \/ \E k \in 1..Len(s) :
          /\ k <= Len(t)
          /\ \A j \in 1..(k - 1) : s[j] = t[j]
          /\ s[k] < t[k]

Permutations(n) == { f \in [1..n -> 1..n] : \A i, j \in 1..n : f[i] = f[j] => i = j }

\* C7: sort() leaves a permutation of the input in ascending order of name,
\* in which payments of the same name keep their input order; with distinct
\* names the result is the same for every order of insertion.
C7_SortIsStableByName ==
    pc = "done" =>
        LET n == Len(input)
        IN  /\ Len(payments) = n
            /\ \A i, j \in 1..n :
                  i < j => LexLeq(payments[i].name, payments[j].name)
            /\ \E f \in Permutations(n) :
                  /\ \A i \in 1..n : payments[i] = input[f[i]]
                  /\ \A i, j \in 1..n :
                        (i < j /\ eq(payments[i], payments[j])) => f[i] < f[j]
            /\ (\A i, j \in 1..n : (i # j) => ~eq(input[i], input[j]))
                  => \A f \in Permutations(n) :
                        sort([ i \in 1..n |-> input[f[i]] ]) = payments

\* Three payments out of order, two of them of the same name with different
\* amounts, which the sort keeps in input order behind the third.
C7_Witness ==
    /\ pc = "done"
    /\ Len(input) = 3
    /\ input[1].name = input[2].name
    /\ input[1].amount = 2000
    /\ input[2].amount = 1000
    /\ input[3].name # input[1].name
    /\ payments = << input[3], input[1], input[2] >>
====
